---------------------------- MODULE Spec2Model ----------------------------
(***************************************************************************)
(* EzCensor: the redaction pipeline (process_file of the text, PDF and     *)
(* image processors), the oracle adapter (OllamaService) and the temp-file *)
(* plumbing they use.                                                      *)
(*                                                                         *)
(* Strings are sequences of one-character strings.  Confidences are        *)
(* hundredths (0.8 is 80).  A file is a path of the temp directory mapped  *)
(* to its content, or to NoFile when nothing exists at that path.          *)
(***************************************************************************)
EXTENDS Integers, Sequences, FiniteSets, TLC

\* ------------------------------------------------------------------ bounds
MaxLen == 2
MaxFindings == 2
MaxPages == 1
MaxFragments == 1

\* ------------------------------------------------------- program constants
CONFIDENCE_THRESHOLD == 80
OCR_FLOOR == 50

\* ----------------------------------------------------------------- strings
Strings(A, n) == UNION {[1..k -> A] : k \in 0..n}

Whitespace == {" ", "\n", "\t"}

RECURSIVE LStrip(_)
LStrip(s) ==
    IF s = <<>> THEN <<>>
    ELSE IF Head(s) \in Whitespace THEN LStrip(Tail(s)) ELSE s

RECURSIVE RStrip(_)
RStrip(s) ==
    IF s = <<>> THEN <<>>
    ELSE IF s[Len(s)] \in Whitespace THEN RStrip(SubSeq(s, 1, Len(s) - 1)) ELSE s

\* str.strip()
Strip(s) == RStrip(LStrip(s))

\* Python truthiness of a str
Truthy(s) == s # <<>>

\* str.lower() on the characters the model uses
LowerChar(c) == CASE c = "A" -> "a" [] c = "B" -> "b" [] OTHER -> c
Lower(s) == [i \in 1..Len(s) |-> LowerChar(s[i])]

\* `needle in hay`
Contains(hay, needle) ==
    \E i \in 1..(Len(hay) - Len(needle) + 1) :
        SubSeq(hay, i, i + Len(needle) - 1) = needle

\* Variant: only the first occurrence is replaced
RECURSIVE StrReplaceFirst(_, _, _)
StrReplaceFirst(s, old, new) ==
    IF Len(s) < Len(old) THEN s
    ELSE IF SubSeq(s, 1, Len(old)) = old
         THEN new \o SubSeq(s, Len(old) + 1, Len(s))
         ELSE <<Head(s)>> \o StrReplaceFirst(Tail(s), old, new)

\* str.replace(old, new) for non-empty old: non-overlapping occurrences, left to right
RECURSIVE StrReplace(_, _, _)
StrReplace(s, old, new) ==
    IF Len(s) < Len(old) THEN s
    ELSE IF SubSeq(s, 1, Len(old)) = old
         THEN new \o StrReplace(SubSeq(s, Len(old) + 1, Len(s)), old, new)
         ELSE <<Head(s)>> \o StrReplace(Tail(s), old, new)

\* ---------------------------------------------------------------- encoding
\* The bytes a text file is made of: two ASCII bytes and a lone 0xE9, which is
\* a character in latin-1 and an invalid sequence in UTF-8.
Bytes == {" ", "a", "0xE9"}

IsAscii(b) == b \notin {"0xE9", "0xC3", "0xA9"}

\* open(path, 'r', encoding='utf-8').read() raises UnicodeDecodeError iff ~Utf8Valid
RECURSIVE Utf8Valid(_)
Utf8Valid(bytes) ==
    IF bytes = <<>> THEN TRUE
    ELSE IF IsAscii(Head(bytes)) THEN Utf8Valid(Tail(bytes))
    ELSE IF Len(bytes) >= 2 /\ bytes[1] = "0xC3" /\ bytes[2] = "0xA9"
         THEN Utf8Valid(SubSeq(bytes, 3, Len(bytes)))
         ELSE FALSE

RECURSIVE Utf8Decode(_)
Utf8Decode(bytes) ==
    IF bytes = <<>> THEN <<>>
    ELSE IF IsAscii(Head(bytes)) THEN <<Head(bytes)>> \o Utf8Decode(Tail(bytes))
    ELSE <<"U+00E9">> \o Utf8Decode(SubSeq(bytes, 3, Len(bytes)))

\* latin-1 decodes every byte to the character with the same number
Latin1Char(b) ==
    CASE b = "0xE9" -> "U+00E9" [] b = "0xC3" -> "U+00C3" [] b = "0xA9" -> "U+00A9"
      [] OTHER -> b
Latin1Decode(bytes) == [i \in 1..Len(bytes) |-> Latin1Char(bytes[i])]

RECURSIVE Utf8Encode(_)
Utf8Encode(chars) ==
    IF chars = <<>> THEN <<>>
    ELSE (CASE Head(chars) = "U+00E9" -> <<"0xC3", "0xA9">>
            [] Head(chars) = "U+00C3" -> <<"0xC3", "0x83">>
            [] Head(chars) = "U+00A9" -> <<"0xC2", "0xA9">>
            [] OTHER -> <<Head(chars)>>)
         \o Utf8Encode(Tail(chars))

\* ----------------------------------------------------------- oracle adapter
\* One entry of "details" as the oracle wrote it: any of the three keys the
\* code reads may be missing (has = the keys present).
Finding(has, type, text, confidence) ==
    [has |-> has, type |-> type, text |-> text, confidence |-> confidence]

FindingTexts == {<<>>, <<"a">>}
FindingTypes == {"name"}
FindingConfs == {50, CONFIDENCE_THRESHOLD}

Findings ==
    {Finding(has,
             IF "type" \in has THEN ty ELSE "",
             IF "text" \in has THEN tx ELSE <<>>,
             IF "confidence" \in has THEN cf ELSE 0) :
        has \in SUBSET {"type", "text", "confidence"},
        ty \in FindingTypes, tx \in FindingTexts, cf \in FindingConfs}

\* A Python dict with the keys the pipeline reads.  isdict = FALSE stands for
\* any JSON value that is not an object (a list, a number, a string, null).
Dict(isdict, has, found_pii, categories, details, recommendation, raw_response, error) ==
    [isdict |-> isdict, has |-> has, found_pii |-> found_pii,
     categories |-> categories, details |-> details,
     recommendation |-> recommendation, raw_response |-> raw_response,
     error |-> error]

NotADict == Dict(FALSE, {}, FALSE, <<>>, <<>>, "", "", "")

\* The JSON objects the oracle may reply with
JsonObjects ==
    {Dict(TRUE, has \cup {"details"}, ("found_pii" \in has) /\ fp, <<>>, ds, "", "", "") :
        has \in SUBSET {"found_pii"}, fp \in BOOLEAN,
        ds \in Strings(Findings, MaxFindings)}

\* What self.client.chat does: raise, or return a reply text that json.loads
\* rejects, parses to a non-object, or parses to an object.
OracleReplies ==
    {[kind |-> "transport_error", raw |-> "", value |-> NotADict]}
    \cup {[kind |-> "not_json", raw |-> r, value |-> NotADict] :
             r \in {"", "Here is the analysis you asked for"}}
    \cup {[kind |-> "json_other", raw |-> "[]", value |-> NotADict]}
    \cup {[kind |-> "json_object", raw |-> "{...}", value |-> o] : o \in JsonObjects}

\* dict.get('found_pii', False), taken as a condition
GetFoundPii(d) == ("found_pii" \in d.has) /\ d.found_pii

\* analyze_text_for_pii: exc is the exception that leaves the call ("none":
\* it returned val)
\* Variant: the JSONDecodeError is not caught
AnalyzeWithoutJsonFallback(reply) ==
    CASE reply.kind = "transport_error" ->
            [exc |-> "none",
             val |-> Dict(TRUE, {"found_pii", "categories", "details", "recommendation", "error"},
                          FALSE, <<>>, <<>>,
                          "Analysis failed - manual review required", "", "chat failed")]
      [] reply.kind = "not_json" -> [exc |-> "JSONDecodeError", val |-> NotADict]
      [] OTHER -> [exc |-> "none", val |-> reply.value]

\* Variant: the failure of self.client.chat is not caught
AnalyzePropagatingChatError(reply) ==
    CASE reply.kind = "transport_error" -> [exc |-> "ConnectionError", val |-> NotADict]
      [] reply.kind = "not_json" ->
            [exc |-> "none",
             val |-> Dict(TRUE, {"found_pii", "categories", "details", "recommendation", "raw_response"},
                          TRUE, <<"unknown">>, <<>>,
                          "Manual review recommended", reply.raw, "")]
      [] OTHER -> [exc |-> "none", val |-> reply.value]

AnalyzeTextForPii(reply) ==
    CASE reply.kind = "transport_error" ->
            [exc |-> "none",
             val |-> Dict(TRUE, {"found_pii", "categories", "details", "recommendation", "error"},
                          FALSE, <<>>, <<>>,
                          "Analysis failed - manual review required", "", "chat failed")]
      [] reply.kind = "not_json" ->
            [exc |-> "none",
             val |-> Dict(TRUE, {"found_pii", "categories", "details", "recommendation", "raw_response"},
                          TRUE, <<"unknown">>, <<>>,
                          "Manual review recommended", reply.raw, "")]
      [] OTHER -> [exc |-> "none", val |-> reply.value]

\* _generate_replacement
Replacements(t) ==
    CASE t = "name" -> <<"[","N","A","M","E"," ","R","E","D","A","C","T","E","D","]">>
      [] t = "email" -> <<"[","E","M","A","I","L"," ","R","E","D","A","C","T","E","D","]">>
      [] t = "phone" -> <<"[","P","H","O","N","E"," ","R","E","D","A","C","T","E","D","]">>
      [] t = "address" -> <<"[","A","D","D","R","E","S","S"," ","R","E","D","A","C","T","E","D","]">>
      [] t = "credit_card" -> <<"[","C","A","R","D"," ","N","U","M","B","E","R"," ","R","E","D","A","C","T","E","D","]">>
      [] t = "ssn" -> <<"[","S","S","N"," ","R","E","D","A","C","T","E","D","]">>
      [] t = "bank_account" -> <<"[","A","C","C","O","U","N","T"," ","N","U","M","B","E","R"," ","R","E","D","A","C","T","E","D","]">>
      [] t = "id_number" -> <<"[","I","D"," ","N","U","M","B","E","R"," ","R","E","D","A","C","T","E","D","]">>
      [] t = "date_of_birth" -> <<"[","D","O","B"," ","R","E","D","A","C","T","E","D","]">>
      [] t = "medical" -> <<"[","M","E","D","I","C","A","L"," ","I","N","F","O"," ","R","E","D","A","C","T","E","D","]">>
      [] OTHER -> <<"[","S","E","N","S","I","T","I","V","E"," ","I","N","F","O"," ","R","E","D","A","C","T","E","D","]">>

\* pii_type.lower() on the type names the model uses
LowerType(t) ==
    CASE t = "NAME" -> "name" [] t = "Email" -> "email" [] OTHER -> t

GenerateReplacement(pii_type) == Replacements(LowerType(pii_type))

Suggestion(text, replacement, type, confidence) ==
    [text |-> text, replacement |-> replacement, type |-> type, confidence |-> confidence]

\* Variant: the details that do not exceed the threshold are the ones kept
RECURSIVE SuggestLoopBelow(_, _, _, _)
SuggestLoopBelow(details, i, threshold, acc) ==
    IF i > Len(details) THEN [exc |-> "none", suggestions |-> acc]
    ELSE LET d == details[i]
             conf == IF "confidence" \in d.has THEN d.confidence ELSE 0
         IN IF conf <= threshold
            THEN IF {"text", "type"} \subseteq d.has
                 THEN SuggestLoopBelow(details, i + 1, threshold,
                         Append(acc, Suggestion(d.text, GenerateReplacement(d.type),
                                                d.type, d.confidence)))
                 ELSE [exc |-> "KeyError", suggestions |-> <<>>]
            ELSE SuggestLoopBelow(details, i + 1, threshold, acc)

\* Variant: a confidence equal to the threshold does not pass
RECURSIVE SuggestLoopStrict(_, _, _, _)
SuggestLoopStrict(details, i, threshold, acc) ==
    IF i > Len(details) THEN [exc |-> "none", suggestions |-> acc]
    ELSE LET d == details[i]
             conf == IF "confidence" \in d.has THEN d.confidence ELSE 0
         IN IF conf > threshold
            THEN IF {"text", "type"} \subseteq d.has
                 THEN SuggestLoopStrict(details, i + 1, threshold,
                         Append(acc, Suggestion(d.text, GenerateReplacement(d.type),
                                                d.type, d.confidence)))
                 ELSE [exc |-> "KeyError", suggestions |-> <<>>]
            ELSE SuggestLoopStrict(details, i + 1, threshold, acc)
\* The loop of generate_redaction_suggestions over details[i..]: acc is the
\* list built so far; a detail that passes the threshold and lacks 'text' or
\* 'type' raises KeyError
RECURSIVE SuggestLoop(_, _, _, _)
SuggestLoop(details, i, threshold, acc) ==
    IF i > Len(details) THEN [exc |-> "none", suggestions |-> acc]
    ELSE LET d == details[i]
             conf == IF "confidence" \in d.has THEN d.confidence ELSE 0
         IN IF conf >= threshold
            THEN IF {"text", "type"} \subseteq d.has
                 THEN SuggestLoop(details, i + 1, threshold,
                         Append(acc, Suggestion(d.text, GenerateReplacement(d.type),
                                                d.type, d.confidence)))
                 ELSE [exc |-> "KeyError", suggestions |-> <<>>]
            ELSE SuggestLoop(details, i + 1, threshold, acc)

\* Variant: the confidence of a detail is not compared with the threshold
GenerateSuggestionsUnfiltered(analysis, threshold) ==
    IF ~analysis.isdict
    THEN [exc |-> "AttributeError", needs_redaction |-> FALSE, suggestions |-> <<>>]
    ELSE IF ~GetFoundPii(analysis)
    THEN [exc |-> "none", needs_redaction |-> FALSE, suggestions |-> <<>>]
    ELSE LET r == SuggestLoop(IF "details" \in analysis.has THEN analysis.details ELSE <<>>,
                              1, 0, <<>>)
         IN [exc |-> r.exc,
             needs_redaction |-> Len(r.suggestions) > 0,
             suggestions |-> r.suggestions]

\* generate_redaction_suggestions(analysis_result) with Config.CONFIDENCE_THRESHOLD
\* = threshold
GenerateRedactionSuggestions(analysis, threshold) ==
    IF ~analysis.isdict
    THEN [exc |-> "AttributeError", needs_redaction |-> FALSE, suggestions |-> <<>>]
    ELSE IF ~GetFoundPii(analysis)
    THEN [exc |-> "none", needs_redaction |-> FALSE, suggestions |-> <<>>]
    ELSE LET r == SuggestLoop(IF "details" \in analysis.has THEN analysis.details ELSE <<>>,
                              1, threshold, <<>>)
         IN [exc |-> r.exc,
             needs_redaction |-> Len(r.suggestions) > 0,
             suggestions |-> r.suggestions]


\* -------------------------------------------------------------- file system
\* What exists at a path of the temp directory.  A text file is its bytes, a
\* PDF its pages' texts, an image its OCR-visible fragments and the black
\* rectangles drawn on it.
File(exists, fmt, bytes, pages, frags, boxes) ==
    [exists |-> exists, fmt |-> fmt, bytes |-> bytes, pages |-> pages,
     frags |-> frags, boxes |-> boxes]

NoFile == File(FALSE, "", <<>>, <<>>, <<>>, {})
EmptyFile == File(TRUE, "bytes", <<>>, <<>>, <<>>, {})
TxtFile(bytes) == File(TRUE, "bytes", bytes, <<>>, <<>>, {})
PdfFile(pages) == File(TRUE, "pdf", <<>>, pages, <<>>, {})
ImgFile(frags, boxes) == File(TRUE, "image", <<>>, <<>>, frags, boxes)

Paths == {"temp/in", "temp/t1", "temp/t2"}
InputPath == "temp/in"

\* One OCR result: (bbox, text, confidence); bbox is [[x1,y1],...,[x4,y4]]
Fragment(bbox, text, confidence) ==
    [bbox |-> bbox, text |-> text, confidence |-> confidence]

Quads == {<<<<1, 0>>, <<3, 1>>, <<2, 2>>, <<0, 1>>>>}
FragTexts == {<<" ">>, <<"a">>, <<"A">>}
FragConfs == {OCR_FLOOR, 90}
Fragments == {Fragment(q, t, c) : q \in Quads, t \in FragTexts, c \in FragConfs}

PageTexts == {<<>>, <<" ", "\n">>, <<"a">>}

Media == {"txt", "pdf", "image"}

InputFiles(m) ==
    CASE m = "txt" -> {TxtFile(b) : b \in Strings(Bytes, MaxLen)}
      [] m = "pdf" -> {PdfFile(ps) : ps \in Strings(PageTexts, MaxPages)}
      [] m = "image" -> {ImgFile(fr, {}) : fr \in Strings(Fragments, MaxFragments)}

\* --------------------------------------------------------------- extractors
\* TextProcessor.extract_text once the file could be opened: UTF-8, and
\* latin-1 when UTF-8 decoding fails
TxtExtractText(f) ==
    IF Utf8Valid(f.bytes) THEN Utf8Decode(f.bytes) ELSE Latin1Decode(f.bytes)

PageBreak == <<"\n","-","-","-","P","A","G","E"," ","B","R","E","A","K","-","-","-","\n">>

\* PDFProcessor.extract_text: every page's text followed by the marker
RECURSIVE PdfExtractText(_)
PdfExtractText(pages) ==
    IF pages = <<>> THEN <<>>
    ELSE Head(pages) \o PageBreak \o PdfExtractText(Tail(pages))

\* easyocr.Reader.readtext(file_path)
ReadText(f) == f.frags

RECURSIVE JoinFragments(_)
JoinFragments(results) ==
    IF results = <<>> THEN <<>>
    ELSE (IF Head(results).confidence > OCR_FLOOR
          THEN Head(results).text \o <<" ">> ELSE <<>>)
         \o JoinFragments(Tail(results))

\* ImageProcessor.extract_text
ImgExtractText(f) == Strip(JoinFragments(ReadText(f)))

ExtractText(m, f) ==
    CASE m = "txt" -> TxtExtractText(f)
      [] m = "pdf" -> PdfExtractText(f.pages)
      [] m = "image" -> ImgExtractText(f)


\* -------------------------------------------------------------- applicators
\* TextProcessor.apply_redactions, the replacement loop over the content read
RECURSIVE TxtRedact(_, _)
TxtRedact(content, redactions) ==
    IF redactions = <<>> THEN content
    ELSE LET text_to_redact == Head(redactions).text
             replacement == Head(redactions).replacement
         IN TxtRedact(IF Truthy(text_to_redact)
                      THEN StrReplace(content, text_to_redact, replacement)
                      ELSE content,
                      Tail(redactions))

\* page.search_for(text): the start positions of the text on the page
\* (PyMuPDF's search ignores case)
SearchFor(page, text) ==
    {i \in 1..(Len(page) - Len(text) + 1) :
        Lower(SubSeq(page, i, i + Len(text) - 1)) = Lower(text)}

\* The positions of a page under some redaction annotation
PdfMarked(page, redactions) ==
    {k \in 1..Len(page) :
        \E r \in 1..Len(redactions) :
            /\ Truthy(redactions[r].text)
            /\ \E i \in SearchFor(page, redactions[r].text) :
                  i <= k /\ k < i + Len(redactions[r].text)}

RECURSIVE DropMarked(_, _, _)
DropMarked(page, marked, k) ==
    IF k > Len(page) THEN <<>>
    ELSE (IF k \in marked THEN <<>> ELSE <<page[k]>>) \o DropMarked(page, marked, k + 1)

\* PDFProcessor.apply_redactions, one page: annotate every match, then
\* page.apply_redactions() removes what the annotations cover
PdfRedactPage(page, redactions) == DropMarked(page, PdfMarked(page, redactions), 1)

PdfRedact(pages, redactions) ==
    [n \in 1..Len(pages) |-> PdfRedactPage(pages[n], redactions)]

SetMin(S) == CHOOSE x \in S : \A y \in S : x <= y
SetMax(S) == CHOOSE x \in S : \A y \in S : x >= y

\* [min_x, min_y, max_x, max_y] of a bbox
Rect(bbox) ==
    LET x_coords == {bbox[i][1] : i \in 1..Len(bbox)}
        y_coords == {bbox[i][2] : i \in 1..Len(bbox)}
    IN <<SetMin(x_coords), SetMin(y_coords), SetMax(x_coords), SetMax(y_coords)>>

\* Variant: a fragment at the OCR floor is matched too
ImgMatchesAtFloor(redaction, frag) ==
    LET text_to_redact == Strip(redaction.text)
    IN /\ Truthy(text_to_redact)
       /\ frag.confidence >= OCR_FLOOR
       /\ Contains(Lower(frag.text), Lower(text_to_redact))
\* The test of ImageProcessor.apply_redactions for one redaction and one OCR result
ImgMatches(redaction, frag) ==
    LET text_to_redact == Strip(redaction.text)
    IN /\ Truthy(text_to_redact)
       /\ frag.confidence > OCR_FLOOR
       /\ Contains(Lower(frag.text), Lower(text_to_redact))

\* The rectangles ImageProcessor.apply_redactions draws
ImgBoxes(ocr_results, redactions) ==
    {Rect(ocr_results[j].bbox) :
        j \in {k \in 1..Len(ocr_results) :
                  \E r \in 1..Len(redactions) : ImgMatches(redactions[r], ocr_results[k])}}

RECURSIVE Uncovered(_, _)
Uncovered(frags, boxes) ==
    IF frags = <<>> THEN <<>>
    ELSE (IF Rect(Head(frags).bbox) \in boxes THEN <<>> ELSE <<Head(frags)>>)
         \o Uncovered(Tail(frags), boxes)

\* apply_redactions of the three processors: ok = FALSE when it returned
\* False (an exception was caught), out = the file at output_path afterwards.
\* io = "error" is a failure of the file system or of a library.
ApplyRedactions(m, f, redactions, created, io) ==
    CASE m = "txt" ->
            IF io = "error" \/ ~Utf8Valid(f.bytes)
            THEN [ok |-> FALSE, out |-> created]
            ELSE [ok |-> TRUE,
                  out |-> TxtFile(Utf8Encode(TxtRedact(Utf8Decode(f.bytes), redactions)))]
      [] m = "pdf" ->
            IF io = "error"
            THEN [ok |-> FALSE, out |-> created]
            ELSE [ok |-> TRUE, out |-> PdfFile(PdfRedact(f.pages, redactions))]
      [] m = "image" ->
            IF io = "error"
            THEN [ok |-> FALSE, out |-> created]
            ELSE LET boxes == f.boxes \cup ImgBoxes(ReadText(f), redactions)
                 IN [ok |-> TRUE, out |-> ImgFile(Uncovered(f.frags, boxes), boxes)]

\* ---------------------------------------------------------- ProcessingResult
ProcessingResult(success, message, text, output_file, pii_found, redaction_count) ==
    [success |-> success, message |-> message, extracted_text |-> text,
     output_file |-> output_file, pii_found |-> pii_found,
     redaction_count |-> redaction_count]

\* The defaults of ProcessingResult.__init__
Result2(success, message) == ProcessingResult(success, message, <<>>, "None", FALSE, 0)

NotReturned == ProcessingResult(FALSE, "(process_file running)", <<>>, "None", FALSE, 0)


\* The messages of the three process_file implementations
NoTextMsg(m) ==
    CASE m = "txt" -> "No text content found in file"
      [] m = "pdf" -> "No text found in PDF file"
      [] m = "image" -> "No text detected in image"
NoPiiMsg(m) ==
    CASE m = "txt" -> "No sensitive information detected in text file"
      [] m = "pdf" -> "No sensitive information detected in PDF"
      [] m = "image" -> "No sensitive information detected in image text"
BelowThresholdMsg == "No redactions needed based on confidence threshold"
RedactedMsg(m) ==
    CASE m = "image" -> "Successfully redacted N sensitive items from image"
      [] OTHER -> "Successfully redacted N sensitive items"
ApplyFailedMsg(m) ==
    CASE m = "txt" -> "Failed to apply redactions to text file"
      [] m = "pdf" -> "Failed to apply redactions to PDF"
      [] m = "image" -> "Failed to apply redactions to image"
ErrorMsg(m) ==
    CASE m = "txt" -> "Error processing text file"
      [] m = "pdf" -> "Error processing PDF"
      [] m = "image" -> "Error processing image"

\* ------------------------------------------------------------------- state
VARIABLES
    medium,                 \* which processor the factory returned
    fs,                     \* the temp directory: path -> file
    original,               \* the input file as process_file was given it
    pc,                     \* where process_file is
    trace,                  \* the pipeline states entered so far, in order
    extracted,              \* "no", or how extract_text ended: "ok", "raised"
    extracted_text,
    reply,                  \* what the oracle did on the last call
    analyze_exc,            \* the exception that left analyze_text_for_pii
    pii_analysis,
    redaction_suggestions,  \* redaction_suggestions['suggestions']
    output_path,
    result,                 \* the ProcessingResult returned
    oracleCalls,            \* calls of self.client.chat
    ocrCalls,               \* calls of reader.readtext
    applyCalls,             \* calls of apply_redactions
    apply_success,          \* "none", or what apply_redactions returned: "True", "False"
    hpc,                    \* where handle_document is ("none": process_file called alone)
    tried                   \* threshold -> what generate_redaction_suggestions did with it

vars == <<medium, fs, original, pc, trace, extracted, extracted_text, reply, analyze_exc, pii_analysis,
          redaction_suggestions, output_path, result, oracleCalls, ocrCalls,
          applyCalls, apply_success, hpc, tried>>

\* What process_file does not touch
outside == <<hpc, tried>>

NoReply == [kind |-> "none", raw |-> "", value |-> NotADict]

\* process_file(file_path, ollama_service) is entered by processor m with the
\* file f at file_path
Start(m, f) ==
    /\ medium = m
    /\ original = f
    /\ fs = [p \in Paths |-> IF p = InputPath THEN original ELSE NoFile]
    /\ pc = "EXTRACTING"
    /\ trace = <<"EXTRACTING">>
    /\ extracted = "no"
    /\ extracted_text = <<>>
    /\ reply = NoReply
    /\ analyze_exc = "none"
    /\ pii_analysis = NotADict
    /\ redaction_suggestions = <<>>
    /\ output_path = "None"
    /\ result = NotReturned
    /\ oracleCalls = 0
    /\ ocrCalls = 0
    /\ applyCalls = 0
    /\ apply_success = "none"

NoneTried == [t \in {} |-> 0]

Init ==
    /\ \E m \in Media : \E f \in InputFiles(m) : Start(m, f)
    /\ hpc = "none"
    /\ tried = NoneTried

Terminal(state) == state \in {"DONE", "FAILED"}

\* Variant: blank text is an error for every medium
ExtractStepBlankFails(m, f, io) ==
    IF io = "error"
    THEN [pc |-> "FAILED", result |-> Result2(FALSE, ErrorMsg(m)), text |-> <<>>]
    ELSE LET text == ExtractText(m, f)
         IN IF ~Truthy(Strip(text))
            THEN [pc |-> "FAILED", result |-> Result2(FALSE, NoTextMsg(m)), text |-> text]
            ELSE [pc |-> "ANALYZING", result |-> NotReturned, text |-> text]

\* process_file, lines "extract, then `if not extracted_text.strip()`".
\* io = "error": extract_text raised (file unreadable, library missing).
ExtractStep(m, f, io) ==
    IF io = "error"
    THEN [pc |-> "FAILED", result |-> Result2(FALSE, ErrorMsg(m)), text |-> <<>>]
    ELSE LET text == ExtractText(m, f)
         IN IF ~Truthy(Strip(text))
            THEN IF m = "image"
                 THEN [pc |-> "DONE",
                       result |-> ProcessingResult(TRUE, NoTextMsg(m), <<>>, "None", FALSE, 0),
                       text |-> text]
                 ELSE [pc |-> "FAILED", result |-> Result2(FALSE, NoTextMsg(m)),
                       text |-> text]
            ELSE [pc |-> "ANALYZING", result |-> NotReturned, text |-> text]

\* Variant: no early return when found_pii is false
AnalyzeStepNoShortCircuit(m, text, a) ==
    IF a.exc # "none" \/ ~a.val.isdict
    THEN [pc |-> "FAILED", result |-> Result2(FALSE, ErrorMsg(m))]
    ELSE [pc |-> "SUGGESTING", result |-> NotReturned]

\* process_file, the check after `await ollama_service.analyze_text_for_pii`:
\* a is what analyze_text_for_pii did
AnalyzeStep(m, text, a) ==
    IF a.exc # "none" \/ ~a.val.isdict
    THEN [pc |-> "FAILED", result |-> Result2(FALSE, ErrorMsg(m))]
    ELSE IF ~GetFoundPii(a.val)
    THEN [pc |-> "DONE",
          result |-> ProcessingResult(TRUE, NoPiiMsg(m), text, "None", FALSE, 0)]
    ELSE [pc |-> "SUGGESTING", result |-> NotReturned]

\* Variant: no early return when needs_redaction is false
SuggestStepAlwaysRedacts(m, text, s) ==
    IF s.exc # "none"
    THEN [pc |-> "FAILED", result |-> Result2(FALSE, ErrorMsg(m))]
    ELSE [pc |-> "REDACTING", result |-> NotReturned]

\* process_file, the check after `await ...generate_redaction_suggestions`:
\* s is what generate_redaction_suggestions did
SuggestStep(m, text, s) ==
    IF s.exc # "none"
    THEN [pc |-> "FAILED", result |-> Result2(FALSE, ErrorMsg(m))]
    ELSE IF ~s.needs_redaction
    THEN [pc |-> "DONE",
          result |-> ProcessingResult(TRUE, BelowThresholdMsg, text, "None", TRUE, 0)]
    ELSE [pc |-> "REDACTING", result |-> NotReturned]

\* Variant: the output name may be that of an existing file
TempNamesAnyPath(files) == Paths

\* The names tempfile.NamedTemporaryFile can pick: it never opens an existing file
TempNames(files) == {p \in Paths : ~files[p].exists}

\* Variant: redaction_count counts the suggestions with a literal to look for
RedactResultCountingLiterals(m, text, success, suggestions, path) ==
    IF success
    THEN ProcessingResult(TRUE, RedactedMsg(m), text, path, TRUE,
                          Len(SelectSeq(suggestions, LAMBDA s : Truthy(s.text))))
    ELSE Result2(FALSE, ApplyFailedMsg(m))
\* Variant: the failure result still carries the output path
RedactResultKeepingPath(m, text, success, suggestions, path) ==
    IF success
    THEN ProcessingResult(TRUE, RedactedMsg(m), text, path, TRUE, Len(suggestions))
    ELSE ProcessingResult(FALSE, ApplyFailedMsg(m), <<>>, path, FALSE, 0)

\* process_file, the result built from apply_redactions' return value
RedactResult(m, text, success, suggestions, path) ==
    IF success
    THEN ProcessingResult(TRUE, RedactedMsg(m), text, path, TRUE, Len(suggestions))
    ELSE Result2(FALSE, ApplyFailedMsg(m))

Enter(state) == /\ pc' = state
                /\ trace' = Append(trace, state)

Extract ==
    /\ pc = "EXTRACTING"
    /\ \E io \in {"ok", "error"} :
          LET r == ExtractStep(medium, fs[InputPath], io)
          IN /\ Enter(r.pc)
             /\ result' = r.result
             /\ extracted' = IF io = "ok" THEN "ok" ELSE "raised"
             /\ extracted_text' = r.text
             /\ ocrCalls' = IF medium = "image" /\ io = "ok" THEN ocrCalls + 1 ELSE ocrCalls
    /\ UNCHANGED <<medium, fs, original, reply, analyze_exc, pii_analysis, redaction_suggestions,
                   output_path, oracleCalls, applyCalls, apply_success, outside>>

\* The oracle call of process_file, the oracle replying one of replies
AnalyzeFrom(replies) ==
    /\ pc = "ANALYZING"
    /\ \E rep \in replies :
          LET a == AnalyzeTextForPii(rep)
              r == AnalyzeStep(medium, extracted_text, a)
          IN /\ reply' = rep
             /\ analyze_exc' = a.exc
             /\ pii_analysis' = a.val
             /\ Enter(r.pc)
             /\ result' = r.result
    /\ oracleCalls' = oracleCalls + 1
    /\ UNCHANGED <<medium, fs, original, extracted, extracted_text, redaction_suggestions, output_path,
                   ocrCalls, applyCalls, apply_success, outside>>

Analyze == AnalyzeFrom(OracleReplies)

Suggest ==
    /\ pc = "SUGGESTING"
    /\ LET s == GenerateRedactionSuggestions(pii_analysis, CONFIDENCE_THRESHOLD)
           r == SuggestStep(medium, extracted_text, s)
       IN /\ redaction_suggestions' = s.suggestions
          /\ Enter(r.pc)
          /\ result' = r.result
    /\ UNCHANGED <<medium, fs, original, extracted, extracted_text, reply, analyze_exc, pii_analysis,
                   output_path, oracleCalls, ocrCalls, applyCalls, apply_success, outside>>

\* create_temp_file raised: process_file's except returns the error result
RedactNoTempFile ==
    /\ pc = "REDACTING"
    /\ Enter("FAILED")
    /\ result' = Result2(FALSE, ErrorMsg(medium))
    /\ UNCHANGED <<medium, fs, original, extracted, extracted_text, reply, analyze_exc, pii_analysis,
                   redaction_suggestions, output_path, oracleCalls, ocrCalls, applyCalls, apply_success, outside>>

\* create_temp_file, apply_redactions and the result
Redact ==
    /\ pc = "REDACTING"
    /\ \E path \in TempNames(fs), io \in {"ok", "error"} :
          LET created == [fs EXCEPT ![path] = EmptyFile]
              a == ApplyRedactions(medium, created[InputPath], redaction_suggestions,
                                   created[path], io)
              r == RedactResult(medium, extracted_text, a.ok, redaction_suggestions, path)
          IN /\ output_path' = path
             /\ fs' = [created EXCEPT ![path] = a.out]
             /\ result' = r
             /\ Enter(IF r.success THEN "DONE" ELSE "FAILED")
             /\ apply_success' = IF a.ok THEN "True" ELSE "False"
             /\ ocrCalls' = IF medium = "image" /\ io = "ok" THEN ocrCalls + 1 ELSE ocrCalls
    /\ applyCalls' = applyCalls + 1
    /\ UNCHANGED <<medium, original, extracted, extracted_text, reply, analyze_exc, pii_analysis,
                   redaction_suggestions, oracleCalls, outside>>

Next == Extract \/ Analyze \/ Suggest \/ Redact \/ RedactNoTempFile

Spec == Init /\ [][Next]_vars


\* ------------------------------------------------- plain text, richer inputs
\* Runs of the text processor on texts over {a, b} and on the text of the
\* round-trip example, the oracle reporting well-formed findings above the
\* threshold whose literals overlap, contain each other, are empty, or occur
\* across the end of a replacement ("]a").
ExampleText ==
    <<"C","o","n","t","a","c","t"," ","J","o","h","n"," ","D","o","e"," ",
    "a","t"," ","j","o","h","n","@","e","x","a","m","p","l","e",".","c","o",
    "m">>
ExampleName == <<"J","o","h","n"," ","D","o","e">>
ExampleEmail ==
    <<"j","o","h","n","@","e","x","a","m","p","l","e",".","c","o","m">>

WellFormed(type, text, confidence) ==
    Finding({"type", "text", "confidence"}, type, text, confidence)

FoundPii(details) ==
    [kind |-> "json_object", raw |-> "{...}",
     value |-> Dict(TRUE, {"found_pii", "details"}, TRUE, <<>>, details, "", "", "")]

ExampleReply == FoundPii(<<WellFormed("name", ExampleName, 95),
                           WellFormed("email", ExampleEmail, 90)>>)

TxtLiterals == {<<>>, <<"a">>, <<"b">>, <<"a", "a">>, <<"a", "b">>, <<"b", "a">>,
                <<"]", "a">>}
TxtFindings == {WellFormed("name", tx, CONFIDENCE_THRESHOLD) : tx \in TxtLiterals}
\* What the oracle answers about a text: for the example its two findings
TxtReplies(text) ==
    IF text = ExampleText THEN {ExampleReply}
    ELSE {FoundPii(ds) : ds \in Strings(TxtFindings, MaxFindings)}
TxtTexts == Strings({"a", "b"}, MaxLen + 1) \cup {ExampleText}

InitTxt ==
    /\ \E b \in TxtTexts : Start("txt", TxtFile(b))
    /\ hpc = "none"
    /\ tried = NoneTried

AnalyzeTxt == AnalyzeFrom(TxtReplies(extracted_text))

NextTxt == Extract \/ AnalyzeTxt \/ Suggest \/ Redact \/ RedactNoTempFile

SpecTxt == InitTxt /\ [][NextTxt]_vars


\* ------------------------------------------------ the threshold, configured
\* generate_redaction_suggestions on one analysis under the values
\* Config.CONFIDENCE_THRESHOLD can be configured to (CONFIDENCE_THRESHOLD in
\* the environment).
Thresholds == {OCR_FLOOR, CONFIDENCE_THRESHOLD, 90}

InitSuggest ==
    /\ Start("txt", TxtFile(<<"a">>))
    /\ hpc = "none"
    /\ tried = NoneTried

\* generate_redaction_suggestions(pii_analysis) called with the threshold set to t
TrySuggest ==
    /\ pc = "SUGGESTING"
    /\ \E t \in Thresholds \ DOMAIN tried :
          tried' = tried @@ (t :> GenerateRedactionSuggestions(pii_analysis, t))
    /\ UNCHANGED <<medium, fs, original, pc, trace, extracted, extracted_text, reply,
                   analyze_exc, pii_analysis, redaction_suggestions, output_path, result,
                   oracleCalls, ocrCalls, applyCalls, apply_success, hpc>>

NextSuggest == Extract \/ Analyze \/ TrySuggest

SpecSuggest == InitSuggest /\ [][NextSuggest]_vars
\* ---------------------------------------------------------- handle_document
\* handle_document from the point where download_document has returned
\* file_path (temp/in).  The extension is one of supported_formats; the
\* factory has a processor for txt and pdf only.
SupportedFormats == {"pdf", "docx", "xlsx", "txt"}

UploadedFiles(ext) ==
    CASE ext = "txt" -> {TxtFile(<<>>), TxtFile(<<"a">>), TxtFile(<<"0xE9">>)}
      [] ext = "pdf" -> {PdfFile(<<<<"a">>>>)}
      [] OTHER -> {TxtFile(<<"a">>)}

\* What the oracle answers while a document is handled
HandlerReplies ==
    {r \in OracleReplies :
        \/ r.kind # "json_object"
        \/ /\ "found_pii" \in r.value.has
           /\ Len(r.value.details) <= 1
           /\ \A i \in 1..Len(r.value.details) :
                 r.value.details[i].has = {"type", "text", "confidence"}}

\* processor_factory.get_processor(file_extension)
GetProcessor(ext) == IF ext \in {"txt", "pdf"} THEN ext ELSE "None"

\* file_service.cleanup_file(file_path)
CleanupFile(files, path) ==
    IF path \in DOMAIN files /\ files[path].exists
    THEN [files EXCEPT ![path] = NoFile]
    ELSE files

InitHandler ==
    /\ \E ext \in SupportedFormats : \E f \in UploadedFiles(ext) : Start(ext, f)
    /\ hpc = "downloaded"
    /\ tried = NoneTried

\* processor = get_processor(...); processor.process_file is entered, or the
\* call on None raises and the except branch reports the error
EnterProcessFile ==
    /\ hpc = "downloaded"
    /\ hpc' = IF GetProcessor(medium) = "None" THEN "error_reported" ELSE "processing"
    /\ UNCHANGED <<medium, fs, original, pc, trace, extracted, extracted_text, reply,
                   analyze_exc, pii_analysis, redaction_suggestions, output_path, result,
                   oracleCalls, ocrCalls, applyCalls, apply_success, tried>>

\* await processor.process_file(file_path, ollama_service)
ProcessFile ==
    /\ hpc = "processing"
    /\ Extract \/ AnalyzeFrom(HandlerReplies) \/ Suggest \/ Redact \/ RedactNoTempFile

\* The rest of the try block once process_file returned res: open
\* res.output_file, reply_document, edit_text, the two cleanup_file calls.
\* open(None) raises TypeError; send = "error" is reply_document or edit_text
\* raising.  Any exception goes to the except branch, which only reports.
Deliver ==
    /\ hpc = "processing"
    /\ Terminal(pc)
    /\ \E send \in {"ok", "error"} :
          IF result.output_file = "None" \/ send = "error"
          THEN /\ hpc' = "error_reported"
               /\ fs' = fs
          ELSE /\ hpc' = "sent"
               /\ fs' = CleanupFile(CleanupFile(fs, InputPath), result.output_file)
    /\ UNCHANGED <<medium, original, pc, trace, extracted, extracted_text, reply,
                   analyze_exc, pii_analysis, redaction_suggestions, output_path, result,
                   oracleCalls, ocrCalls, applyCalls, apply_success, tried>>

NextHandler == EnterProcessFile \/ ProcessFile \/ Deliver

SpecHandler == InitHandler /\ [][NextHandler]_vars
\* ------------------------------------------------ images, several fragments
\* Runs of the image processor on images with up to MaxFragments + 1 OCR
\* fragments, the i-th in a skewed quadrilateral of its own, the oracle
\* reporting well-formed findings at the threshold whose literals are empty,
\* padded with a blank, or differ from the fragment text in case.
QuadAt(i) == <<<<4 * i + 1, 0>>, <<4 * i + 3, 1>>, <<4 * i + 2, 2>>, <<4 * i, 1>>>>

ImgTexts == {<<"a">>, <<"A">>, <<"b">>}
ImgLiterals == {<<>>, <<"a">>, <<" ", "a">>, <<"B">>}

ImgFragLists ==
    UNION {{[i \in 1..n |-> Fragment(QuadAt(i), tc[i][1], tc[i][2])] :
               tc \in [1..n -> ImgTexts \X FragConfs]} : n \in 0..(MaxFragments + 1)}

ImgFindings == {WellFormed("name", tx, CONFIDENCE_THRESHOLD) : tx \in ImgLiterals}
ImageReplies == {FoundPii(ds) : ds \in Strings(ImgFindings, MaxFindings)}

InitImage ==
    /\ \E fr \in ImgFragLists : Start("image", ImgFile(fr, {}))
    /\ hpc = "none"
    /\ tried = NoneTried

AnalyzeImage == AnalyzeFrom(ImageReplies)

NextImage == Extract \/ AnalyzeImage \/ Suggest \/ Redact \/ RedactNoTempFile

SpecImage == InitImage /\ [][NextImage]_vars
\* ================================================================== claims
Blank(text) == ~Truthy(Strip(text))
NoOutputFile == \A p \in Paths \ {InputPath} : ~fs[p].exists
Last(seq) == seq[Len(seq)]

PipelineOrder == <<"EXTRACTING", "ANALYZING", "SUGGESTING", "REDACTING">>
IsPrefix(a, b) == Len(a) <= Len(b) /\ SubSeq(b, 1, Len(a)) = a

\* C1: a run enters EXTRACTING, ANALYZING, SUGGESTING, REDACTING in that order,
\* each at most once and never an earlier one again, DONE or FAILED only as
\* the last state; the oracle is called only after extraction returned
\* non-blank text, and apply_redactions only with a non-empty suggestion list.
C1_FixedOrder ==
    /\ pc = Last(trace)
    /\ LET body == IF Terminal(pc) THEN SubSeq(trace, 1, Len(trace) - 1) ELSE trace
       IN /\ Len(body) >= 1
          /\ IsPrefix(body, PipelineOrder)
    /\ oracleCalls > 0 => extracted = "ok" /\ ~Blank(extracted_text)
    /\ applyCalls > 0 => Len(redaction_suggestions) > 0
    /\ (~Terminal(pc)) => ENABLED Next

C1_Witness ==
    /\ trace = <<"EXTRACTING", "ANALYZING", "SUGGESTING", "REDACTING", "DONE">>
    /\ applyCalls = 1

\* C2: the ProcessingResult returned has an output_file iff success is true
\* and redaction_count > 0.
C2_OutputIffRedacted ==
    Terminal(pc) =>
        ((result.output_file # "None") <=> (result.success /\ result.redaction_count > 0))

C2_Witness ==
    /\ pc = "FAILED"
    /\ applyCalls = 1
    /\ output_path # "None"
    /\ result.output_file = "None"

\* C3: an analysis with found_pii false ends the run DONE with success,
\* pii_found = false, redaction_count = 0 and no output, whatever its
\* findings; nothing is redacted and apply_redactions is not called.
AnalysisReturned == oracleCalls > 0 /\ analyze_exc = "none" /\ pii_analysis.isdict

C3_NoPiiShortCircuit ==
    (AnalysisReturned /\ ~GetFoundPii(pii_analysis)) =>
        /\ pc = "DONE"
        /\ result.success
        /\ ~result.pii_found
        /\ result.redaction_count = 0
        /\ result.output_file = "None"
        /\ result.extracted_text = extracted_text
        /\ redaction_suggestions = <<>>
        /\ applyCalls = 0
        /\ NoOutputFile

C3_Witness ==
    /\ AnalysisReturned
    /\ "found_pii" \in pii_analysis.has
    /\ ~pii_analysis.found_pii
    /\ \E i \in 1..Len(pii_analysis.details) :
          LET d == pii_analysis.details[i]
          IN {"text", "type", "confidence"} \subseteq d.has
             /\ d.confidence >= CONFIDENCE_THRESHOLD /\ Truthy(d.text)
    /\ pc = "DONE"

\* C4: found_pii true with every finding's confidence below the threshold (or
\* no finding) ends the run DONE with success, pii_found = true,
\* redaction_count = 0, no output and no file created.
AllBelowThreshold(analysis) ==
    \A i \in 1..Len(analysis.details) :
        /\ "confidence" \in analysis.details[i].has
        /\ analysis.details[i].confidence < CONFIDENCE_THRESHOLD

C4_BelowThreshold ==
    (AnalysisReturned /\ GetFoundPii(pii_analysis) /\ AllBelowThreshold(pii_analysis)
        /\ Terminal(pc)) =>
        /\ pc = "DONE"
        /\ result.success
        /\ result.pii_found
        /\ result.redaction_count = 0
        /\ result.output_file = "None"
        /\ applyCalls = 0
        /\ NoOutputFile
        /\ result # ProcessingResult(TRUE, NoPiiMsg(medium), extracted_text, "None", FALSE, 0)

C4_Witness ==
    /\ AnalysisReturned
    /\ GetFoundPii(pii_analysis)
    /\ AllBelowThreshold(pii_analysis)
    /\ Len(pii_analysis.details) = MaxFindings
    /\ pc = "DONE"

\* C5: blank extracted text ends an image run with success and pii_found =
\* false, and a text or PDF run with success = false; the oracle is never
\* called and nothing is written.
C5_BlankText ==
    (extracted = "ok" /\ Blank(ExtractText(medium, original))) =>
        /\ Terminal(pc)
        /\ oracleCalls = 0
        /\ result.output_file = "None"
        /\ NoOutputFile
        /\ (medium = "image") => (pc = "DONE" /\ result.success /\ ~result.pii_found)
        /\ (medium # "image") => (pc = "FAILED" /\ ~result.success)

C5_Witness ==
    /\ medium = "image"
    /\ extracted = "ok"
    /\ Len(original.frags) > 0
    /\ Blank(extracted_text)
    /\ pc = "DONE"

\* C6: a reply that is not JSON gives the degraded analysis (found_pii true,
\* categories ["unknown"], no details, the reply as raw_response), and no
\* exception leaves analyze_text_for_pii for any reply.
C6_MalformedReply ==
    /\ analyze_exc = "none"
    /\ reply.kind = "not_json" =>
          /\ pii_analysis.isdict
          /\ GetFoundPii(pii_analysis)
          /\ pii_analysis.categories = <<"unknown">>
          /\ pii_analysis.details = <<>>
          /\ "raw_response" \in pii_analysis.has
          /\ pii_analysis.raw_response = reply.raw

C6_Witness ==
    /\ reply.kind = "not_json"
    /\ reply.raw # ""
    /\ pii_analysis.raw_response = reply.raw

\* C7: when the oracle call fails, analyze_text_for_pii returns found_pii
\* false, no details and an error text; the oracle was called once, and the
\* run ends DONE with success, pii_found = false and no output.
C7_OracleUnreachable ==
    reply.kind = "transport_error" =>
        /\ analyze_exc = "none"
        /\ pii_analysis.isdict
        /\ ~GetFoundPii(pii_analysis)
        /\ pii_analysis.details = <<>>
        /\ "error" \in pii_analysis.has
        /\ pii_analysis.error # ""
        /\ oracleCalls = 1
        /\ pc = "DONE"
        /\ result.success
        /\ ~result.pii_found
        /\ result.output_file = "None"
        /\ NoOutputFile

C7_Witness ==
    /\ reply.kind = "transport_error"
    /\ pc = "DONE"
    /\ oracleCalls = 1

\* C8: a run fails only in extraction or in redaction: whatever the oracle
\* replies, the run does not end with success = false while analysing or
\* suggesting.
C8_OracleNeverFailsRun ==
    pc = "FAILED" =>
        \/ trace = <<"EXTRACTING", "FAILED">>
        \/ trace = <<"EXTRACTING", "ANALYZING", "SUGGESTING", "REDACTING", "FAILED">>

\* C9: once apply_redactions has failed, no file exists at the output path
\* that was chosen.
C9_NoOutputAfterApplyFailure ==
    (Terminal(pc) /\ applyCalls > 0 /\ ~result.success) => ~fs[output_path].exists

\* C10: the input file exists with its content unchanged at every point of the
\* run, and an output file is never at the input's path.
C10_InputPreserved ==
    /\ fs[InputPath] = original
    /\ fs[InputPath].exists
    /\ output_path # InputPath
    /\ result.output_file # InputPath

C10_Witness ==
    /\ pc = "DONE"
    /\ result.output_file # "None"
    /\ fs[result.output_file].exists
    /\ fs[result.output_file] # fs[InputPath]


\* Characters that remember where in the original text they stood (pos = 0:
\* inserted by a replacement)
Tag(text) == [i \in 1..Len(text) |-> [c |-> text[i], pos |-> i]]
Untag(tagged) == [i \in 1..Len(tagged) |-> tagged[i].c]
Inserted(new) == [i \in 1..Len(new) |-> [c |-> new[i], pos |-> 0]]

\* Where the occurrences of old start in text, found left to right from i on,
\* each search resuming behind the last match
RECURSIVE MatchStarts(_, _, _)
MatchStarts(text, old, i) ==
    IF i + Len(old) - 1 > Len(text) THEN {}
    ELSE IF SubSeq(text, i, i + Len(old) - 1) = old
         THEN {i} \cup MatchStarts(text, old, i + Len(old))
         ELSE MatchStarts(text, old, i + 1)

RECURSIVE Pieces(_, _, _, _, _)
Pieces(tagged, starts, width, new, i) ==
    IF i > Len(tagged) THEN <<>>
    ELSE (IF i \in starts THEN Inserted(new)
          ELSE IF \E st \in starts : st < i /\ i < st + width THEN <<>>
          ELSE <<tagged[i]>>)
         \o Pieces(tagged, starts, width, new, i + 1)

\* One pass for one suggestion over the current buffer
OnePass(tagged, old, new) ==
    IF old = <<>> THEN tagged
    ELSE Pieces(tagged, MatchStarts(Untag(tagged), old, 1), Len(old), new, 1)

\* The passes of suggestions k.. in list order
RECURSIVE Fold(_, _, _)
Fold(tagged, suggestions, k) ==
    IF k > Len(suggestions) THEN tagged
    ELSE Fold(OnePass(tagged, suggestions[k].text, suggestions[k].replacement),
              suggestions, k + 1)

\* The positions of text inside an occurrence of some non-empty literal
Covered(text, suggestions) ==
    {k \in 1..Len(text) :
        \E r \in 1..Len(suggestions) :
            LET lit == suggestions[r].text
            IN /\ lit # <<>>
               /\ \E i \in 1..Len(text) :
                     /\ i <= k /\ k < i + Len(lit)
                     /\ i + Len(lit) - 1 <= Len(text)
                     /\ SubSeq(text, i, i + Len(lit) - 1) = lit}

\* "Contact [NAME REDACTED] at [EMAIL REDACTED]"
ExampleRedacted ==
    <<"C","o","n","t","a","c","t"," ","[","N","A","M","E"," ","R","E","D",
    "A","C","T","E","D","]"," ","a","t"," ","[","E","M","A","I","L"," ","R",
    "E","D","A","C","T","E","D","]">>

TextRedacted == medium = "txt" /\ pc = "DONE" /\ applyCalls = 1
OriginalText == Utf8Decode(original.bytes)
OutputText == Utf8Decode(fs[output_path].bytes)

\* C11: after apply_redactions on a text file, no character of the original
\* that lies inside an occurrence of a suggestion's non-empty literal is left
\* in the output, also where occurrences overlap or contain each other.
C11_NoCoveredCharSurvives ==
    TextRedacted =>
        LET out == Fold(Tag(OriginalText), redaction_suggestions, 1)
        IN \A k \in Covered(OriginalText, redaction_suggestions) :
              \A i \in 1..Len(out) : out[i].pos # k

\* C12: the output of the text apply_redactions is the fold over the
\* suggestions in list order, each pass replacing every left-to-right
\* non-overlapping, case-sensitive occurrence of the literal in the current
\* buffer and empty literals changing nothing; the round-trip example gives
\* "Contact [NAME REDACTED] at [EMAIL REDACTED]".
C12_SequentialFold ==
    TextRedacted =>
        /\ OutputText = Untag(Fold(Tag(OriginalText), redaction_suggestions, 1))
        /\ (OriginalText = ExampleText /\ reply = ExampleReply) =>
              OutputText = ExampleRedacted

C12_Witness ==
    /\ TextRedacted
    /\ OriginalText = ExampleText
    /\ reply = ExampleReply
    /\ OutputText = ExampleRedacted

\* The findings of an analysis that reach the threshold, in their order
Kept(analysis, threshold) ==
    SelectSeq(IF "details" \in analysis.has THEN analysis.details ELSE <<>>,
              LAMBDA d : "confidence" \in d.has /\ d.confidence >= threshold)

Suggested == "SUGGESTING" \in {trace[i] : i \in 1..Len(trace)} /\ pc # "SUGGESTING"

\* C13: for an analysis with found_pii true, generate_redaction_suggestions
\* returns one suggestion per finding whose confidence is at least the
\* threshold (equal is kept, no confidence is dropped), in the findings'
\* order, duplicates kept, each with the finding's text, type and confidence;
\* needs_redaction is (number of suggestions > 0).  The call returns unless a
\* kept finding lacks text or type.
C13_SuggestionsAreKeptFindings ==
    (Suggested /\ AnalysisReturned /\ GetFoundPii(pii_analysis)) =>
        LET kept == Kept(pii_analysis, CONFIDENCE_THRESHOLD)
            s == GenerateRedactionSuggestions(pii_analysis, CONFIDENCE_THRESHOLD)
        IN IF \A i \in 1..Len(kept) : {"text", "type"} \subseteq kept[i].has
           THEN /\ s.exc = "none"
                /\ redaction_suggestions = s.suggestions
                /\ Len(redaction_suggestions) = Len(kept)
                /\ \A i \in 1..Len(kept) :
                      /\ redaction_suggestions[i].text = kept[i].text
                      /\ redaction_suggestions[i].type = kept[i].type
                      /\ redaction_suggestions[i].confidence = kept[i].confidence
                      /\ redaction_suggestions[i].confidence >= CONFIDENCE_THRESHOLD
                /\ s.needs_redaction = (Len(redaction_suggestions) > 0)
                /\ s.needs_redaction = ("REDACTING" \in {trace[i] : i \in 1..Len(trace)})
           ELSE s.exc = "KeyError" /\ pc = "FAILED"

C13_Witness ==
    /\ Suggested /\ AnalysisReturned /\ GetFoundPii(pii_analysis)
    /\ Len(pii_analysis.details) = 2
    /\ "confidence" \notin pii_analysis.details[1].has
    /\ pii_analysis.details[2].confidence = CONFIDENCE_THRESHOLD
    /\ Len(redaction_suggestions) = 1
    /\ redaction_suggestions[1].text = pii_analysis.details[2].text

\* C14: every analysis analyze_text_for_pii returns, whatever the oracle
\* replied, has an empty list of findings when found_pii is false.
C14_NoPiiNoFindings ==
    (AnalysisReturned /\ ~GetFoundPii(pii_analysis)) =>
        (IF "details" \in pii_analysis.has THEN pii_analysis.details ELSE <<>>) = <<>>

\* a is what is left of b after dropping some of b's entries
RECURSIVE IsSubsequence(_, _)
IsSubsequence(a, b) ==
    IF a = <<>> THEN TRUE
    ELSE IF b = <<>> THEN FALSE
    ELSE IF Head(a) = Head(b) THEN IsSubsequence(Tail(a), Tail(b))
    ELSE IsSubsequence(a, Tail(b))

\* C15: for one analysis and thresholds t1 <= t2, the suggestions returned
\* with t2 are a subsequence of those returned with t1: there are no more of
\* them, and needs_redaction with t2 implies needs_redaction with t1.
C15_ThresholdMonotone ==
    \A t1 \in DOMAIN tried, t2 \in DOMAIN tried :
        (t1 <= t2 /\ tried[t1].exc = "none" /\ tried[t2].exc = "none") =>
            /\ IsSubsequence(tried[t2].suggestions, tried[t1].suggestions)
            /\ Len(tried[t2].suggestions) <= Len(tried[t1].suggestions)
            /\ tried[t2].needs_redaction => tried[t1].needs_redaction

C15_Witness ==
    /\ {OCR_FLOOR, CONFIDENCE_THRESHOLD} \subseteq DOMAIN tried
    /\ tried[OCR_FLOOR].exc = "none"
    /\ Len(tried[OCR_FLOOR].suggestions) = 2
    /\ Len(tried[CONFIDENCE_THRESHOLD].suggestions) = 1
    /\ tried[CONFIDENCE_THRESHOLD].suggestions[1] = tried[OCR_FLOOR].suggestions[2]

\* C16: when apply_redactions returns True the run ends DONE with success,
\* pii_found, output_file the file just created and redaction_count the
\* number of suggestions handed to apply_redactions (whether or not they
\* matched anything); when it returns False the run ends FAILED with no
\* output_file and redaction_count 0.
C16_ApplicatorOutcome ==
    /\ apply_success = "True" =>
          /\ pc = "DONE"
          /\ result.success /\ result.pii_found
          /\ result.output_file = output_path
          /\ output_path \in Paths \ {InputPath}
          /\ fs[output_path].exists
          /\ result.redaction_count = Len(redaction_suggestions)
    /\ apply_success = "False" =>
          /\ pc = "FAILED"
          /\ ~result.success
          /\ result.output_file = "None"
          /\ result.redaction_count = 0

C16_Witness ==
    /\ medium = "txt" /\ apply_success = "True" /\ pc = "DONE"
    /\ result.redaction_count = 2
    /\ \A i \in 1..Len(redaction_suggestions) : redaction_suggestions[i].text = <<>>
    /\ fs[output_path].bytes = original.bytes

HandlerFinished == hpc \in {"sent", "error_reported"}

\* C17: when handle_document has finished with an accepted upload, whatever
\* the outcome, neither the downloaded file nor an output file made for it
\* is left in the temp directory.
C17_NoFileLeftBehind ==
    HandlerFinished => \A p \in Paths : ~fs[p].exists

\* C18: a PDF with at least one page, every page giving empty or
\* whitespace-only text, ends FAILED with success false and 'No text found',
\* and the oracle is never called.
C18_BlankPdfFails ==
    (/\ medium = "pdf"
     /\ Len(original.pages) >= 1
     /\ \A i \in 1..Len(original.pages) : Blank(original.pages[i])
     /\ extracted = "ok") =>
        /\ pc = "FAILED"
        /\ ~result.success
        /\ result.message = NoTextMsg("pdf")
        /\ oracleCalls = 0

ImageRedacted == medium = "image" /\ apply_success = "True"

\* The texts of the fragments above the OCR floor, a blank after each
RECURSIVE SpacedTexts(_)
SpacedTexts(frags) ==
    IF frags = <<>> THEN <<>>
    ELSE Head(frags).text \o <<" ">> \o SpacedTexts(Tail(frags))

AboveFloor(frags) == SelectSeq(frags, LAMBDA fr : fr.confidence > OCR_FLOOR)

BlackedOut(frag) == Rect(frag.bbox) \in fs[output_path].boxes
Untouched(frag) == \E i \in 1..Len(fs[output_path].frags) : fs[output_path].frags[i] = frag

\* C19 as stated: a fragment's bounding rectangle is blacked out iff its
\* confidence is above 0.5 and some suggestion's literal is a
\* case-insensitive substring of its text.
C19_BlackedIffLiteralInFragment ==
    ImageRedacted =>
        \A j \in 1..Len(original.frags) :
            LET frag == original.frags[j]
            IN BlackedOut(frag) <=>
                  /\ frag.confidence > OCR_FLOOR
                  /\ \E r \in 1..Len(redaction_suggestions) :
                        Contains(Lower(frag.text), Lower(redaction_suggestions[r].text))

\* C19 amended: a fragment's bounding rectangle (min/max of the
\* quadrilateral's x and y) is blacked out iff its confidence is above 0.5
\* and some suggestion's literal, stripped of surrounding whitespace, is not
\* empty and is a case-insensitive substring of its text; every such
\* fragment is covered, the others are left as they were, and the extracted
\* text is made of the fragments above 0.5.
C19_BlackedIffStrippedLiteralInFragment ==
    /\ ImageRedacted =>
          \A j \in 1..Len(original.frags) :
              LET frag == original.frags[j]
                  hit == /\ frag.confidence > OCR_FLOOR
                         /\ \E r \in 1..Len(redaction_suggestions) :
                               LET lit == Strip(redaction_suggestions[r].text)
                               IN lit # <<>> /\ Contains(Lower(frag.text), Lower(lit))
              IN /\ BlackedOut(frag) <=> hit
                 /\ Untouched(frag) <=> ~hit
                 /\ hit => <<4 * j, 0, 4 * j + 3, 2>> \in fs[output_path].boxes
    /\ (medium = "image" /\ extracted = "ok") =>
          extracted_text = Strip(SpacedTexts(AboveFloor(original.frags)))

C19_Witness ==
    /\ ImageRedacted
    /\ Len(original.frags) = MaxFragments + 1
    /\ \A j \in 1..Len(original.frags) : original.frags[j].confidence > OCR_FLOOR
    /\ Len(redaction_suggestions) = 1
    /\ redaction_suggestions[1].text = <<" ", "a">>
    /\ original.frags[1].text = <<"A">>
    /\ original.frags[Len(original.frags)].text = <<"a">>
    /\ BlackedOut(original.frags[1])
    /\ BlackedOut(original.frags[Len(original.frags)])

ReachedRedacting == "REDACTING" \in {trace[i] : i \in 1..Len(trace)}

\* C20: in an image run that reached REDACTING and has ended, OCR was run
\* exactly once on the artifact: apply_redactions matches the suggestions
\* against the fragment sequence extraction produced.
C20_OcrRunOnce ==
    (medium = "image" /\ ReachedRedacting /\ Terminal(pc) /\ apply_success = "True") =>
        ocrCalls = 1

\* C21: for a text file whose extraction succeeded (through the latin-1
\* fallback too) and for which there are suggestions, apply_redactions can
\* read the file, what it redacts is the text extraction returned, and the
\* run does not end FAILED because of the file's encoding.
C21_ApplicatorReadsExtractedText ==
    (medium = "txt" /\ extracted = "ok" /\ ReachedRedacting
        /\ Len(redaction_suggestions) > 0) =>
        /\ ApplyRedactions(medium, fs[InputPath], redaction_suggestions, EmptyFile, "ok").ok
        /\ apply_success = "True" =>
              fs[output_path].bytes =
                  Utf8Encode(TxtRedact(extracted_text, redaction_suggestions))
        /\ apply_success = "False" => Utf8Valid(original.bytes)

=============================================================================
